---- MODULE Spec2Model ----
(***************************************************************************)
(* AutoFeeder: the kinematics engine (src/kinematics.cpp) and the profile  *)
(* store (src/Profile.cpp) of a two-link planar feeding arm.               *)
(*                                                                         *)
(* Numbers.  The code computes in 32-bit floats.  Here a float is a record *)
(* [nan, v]: either NaN or a length in thousandths of a millimetre, so     *)
(* that every literal of the code (0.001, 10, 0.9*(L1+L2), 15, 25, 50 and  *)
(* the default profiles) is an exact integer.  A product of two lengths is *)
(* a Big: a two-limb number h * 10^6 + l, because such products do not fit *)
(* the integers of the model checker.  sqrt and the quotients round to the *)
(* nearest thousandth.  NaN propagates through arithmetic and makes every  *)
(* comparison false, as in IEEE 754.                                       *)
(***************************************************************************)
EXTENDS Integers, Sequences, FiniteSets, TLC

(* The program's state is the persistent store (EEPROM) and the profile bank
   (profiles).  The other variables hold the most recent call: its name (op),
   its arguments (idx, pin, x0, y0, q1, q2: the caller's out-variables as they
   were before the call), and what it left behind (ret, x, y, p, q1_ptr,
   q2_ptr).  written is history: the profile last handed to each slot. *)
VARIABLES op, idx, ret, x0, y0, x, y, q1, q2, q1_ptr, q2_ptr, pin, p,
          EEPROM, profiles, written

vars == <<op, idx, ret, x0, y0, x, y, q1, q2, q1_ptr, q2_ptr, pin, p,
          EEPROM, profiles, written>>

---------------------------------------------------------------------------
(* Floats *)

NaN == [nan |-> TRUE, v |-> 0]

\* n thousandths of a millimetre
Fl(n) == [nan |-> FALSE, v |-> n]

\* mm millimetres
MM(mm) == Fl(mm * 1000)

isnan(f) == f.nan

Abs(n) == IF n < 0 THEN -n ELSE n

\* a < b on floats: false when either is NaN
FLess(a, b) == ~a.nan /\ ~b.nan /\ a.v < b.v

FAdd(a, b) == IF a.nan \/ b.nan THEN NaN ELSE Fl(a.v + b.v)

FSub(a, b) == IF a.nan \/ b.nan THEN NaN ELSE Fl(a.v - b.v)

FNeg(a) == IF a.nan THEN NaN ELSE Fl(-a.v)

---------------------------------------------------------------------------
(* Two-limb numbers: value h * 10^6 + l with 0 <= l < 10^6 *)

BigNorm(h, l) == [nan |-> FALSE, h |-> h + (l \div 1000000), l |-> l % 1000000]

BigNaN == [nan |-> TRUE, h |-> 0, l |-> 0]

BigNeg(a) == BigNorm(-a.h, -a.l)

BigAdd(a, b) == IF a.nan \/ b.nan THEN BigNaN ELSE BigNorm(a.h + b.h, a.l + b.l)

BigSub(a, b) == IF a.nan \/ b.nan THEN BigNaN ELSE BigNorm(a.h - b.h, a.l - b.l)

BigLess(a, b) == ~a.nan /\ ~b.nan /\ (a.h < b.h \/ (a.h = b.h /\ a.l < b.l))

\* m, negated when neg
BigSigned(neg, m) == IF neg THEN BigNeg(m) ELSE m

\* the product of two naturals below 2^20, by their limbs of three digits
NatMul(A, B) ==
  BigNorm((A \div 1000) * (B \div 1000),
          ((A \div 1000) * (B % 1000) + (A % 1000) * (B \div 1000)) * 1000
            + (A % 1000) * (B % 1000))

\* the product of two integers below 2^20 in size
IntMul(a, b) == BigSigned((a < 0) /= (b < 0), NatMul(Abs(a), Abs(b)))

\* a * b on floats
FMul(a, b) == IF a.nan \/ b.nan THEN BigNaN ELSE IntMul(a.v, b.v)

\* one bit of the root: b is added to r if the square of r + b does not exceed n
SqrtBit(n, r, b) == r + (IF BigLess(n, NatMul(r + b, r + b)) THEN 0 ELSE b)

\* the r with r*r <= n < (r+1)*(r+1), for n below 2^40: s[k] is r's k top bits
FloorSqrt(n) ==
  LET s[k \in 0..20] == IF k = 0 THEN 0 ELSE SqrtBit(n, s[k - 1], 2 ^ (20 - k))
  IN s[20]

\* r or r + 1, whichever is nearer the root of n
NearestRoot(n, r) ==
  IF BigLess(BigAdd(NatMul(r, r), BigNorm(0, r)), n) THEN Fl(r + 1) ELSE Fl(r)

\* sqrt of a Big, rounded to nearest; NaN for NaN and for a negative number
FSqrt(n) == IF n.nan \/ n.h < 0 THEN NaN ELSE NearestRoot(n, FloorSqrt(n))

\* one step of long division by c: three more digits d behind the remainder
DivStep(qr, d, c) ==
  [q |-> qr.q * 1000 + ((qr.r * 1000 + d) \div c), r |-> (qr.r * 1000 + d) % c]

\* the quotient, one more when the remainder is half of c or more
RoundedQuotient(qr, c) == IF 2 * qr.r >= c THEN qr.q + 1 ELSE qr.q

\* n / c for a Big n >= 0 and an integer 0 < c <= 2^20, rounded to nearest
BigDivRound(n, c) ==
  RoundedQuotient(
    DivStep(DivStep([q |-> n.h \div c, r |-> n.h % c], n.l \div 1000, c),
            n.l % 1000, c), c)

\* n / c for a Big n of either sign
SignedDivRound(n, c) ==
  IF n.h < 0 THEN -BigDivRound(BigNeg(n), c) ELSE BigDivRound(n, c)

\* a * b / c on floats.  c is a distance: it is 0 only when a * b is 0 too (the
\* origin scaled by 10/0, the centre of the disc projected by 0/0), which is NaN.
FMulDiv(a, b, c) ==
  IF a.nan \/ b.nan \/ c.nan THEN NaN
  ELSE IF c.v = 0 THEN NaN
  ELSE Fl(SignedDivRound(IntMul(a.v, b.v), c.v))

---------------------------------------------------------------------------
(* Kinematics engine *)

\* extern const float L1, L2: defined outside the given sources; the values
\* are the example geometry of the specification (104.5 mm and 105 mm)
L1 == Fl(104500)

L2 == Fl(105000)

dist_sq(x1, y1, x2, y2) ==
  BigAdd(FMul(FSub(x1, x2), FSub(x1, x2)), FMul(FSub(y1, y2), FSub(y1, y2)))

\* x*x + y*y - a*a - b*b
DNum(px, py, a, b) ==
  BigSub(BigSub(BigAdd(FMul(px, px), FMul(py, py)), FMul(a, a)), FMul(b, b))

\* 2.0*a*b, in units of 10^6 square thousandths
DDen(a, b) == BigDivRound(BigAdd(FMul(a, b), FMul(a, b)), 1000000)

\* D = (x*x + y*y - a*a - b*b) / (2.0*a*b), in millionths, rounded to nearest
DValue(px, py, a, b) ==
  IF isnan(px) \/ isnan(py) THEN NaN
  ELSE Fl(SignedDivRound(DNum(px, py, a, b), DDen(a, b)))

\* 1.0 in the unit of D
One == Fl(1000 * 1000)

\* 1.0 - D*D < 0, the argument of sqrt in line 15
NegativeRadicand(D) == FLess(One, D) \/ FLess(D, FNeg(One))

(* The value of a joint angle is not tracked, only whether it is a number:
   "num", or "nan".  t2 = atan2(+-sqrt(1 - D*D), D) is NaN exactly when D is
   NaN or 1 - D*D is negative; t1 subtracts from atan2(y, x) an atan2 of
   sin(t2) and cos(t2), so it is NaN exactly when t2 is (x or y NaN makes D
   NaN). *)
AngleOf(D) == IF isnan(D) \/ NegativeRadicand(D) THEN "nan" ELSE "num"

\* lines 12-17, D computed
SolveFor(D, t1, t2) ==
  IF FLess(One, D) THEN [ret |-> FALSE, t1 |-> t1, t2 |-> t2]
  ELSE [ret |-> TRUE, t1 |-> AngleOf(D), t2 |-> AngleOf(D)]

twoLinkIK(px, py, a, b, elbowup, t1, t2) == SolveFor(DValue(px, py, a, b), t1, t2)

calc_ik(px, py, q1p, q2p) == twoLinkIK(px, py, L1, L2, TRUE, q1p, q2p)

\* cos of an angle in degrees, a multiple of 30, in millionths
Cos(deg) ==
  LET d == deg % 360
      e == IF d > 180 THEN 360 - d ELSE d
  IN CASE e = 0 -> 1000000
       [] e = 30 -> 866025
       [] e = 60 -> 500000
       [] e = 90 -> 0
       [] e = 120 -> -500000
       [] e = 150 -> -866025
       [] e = 180 -> -1000000

Sin(deg) == Cos(deg - 90)

\* len * c for a cosine or sine c in millionths
Scale(len, c) == FMulDiv(len, Fl(c), Fl(1000000))

fk_x(a1, a2) == FAdd(Scale(L1, Cos(a1)), Scale(L2, Cos(a1 + a2)))

fk_y(a1, a2) == FAdd(Scale(L1, Sin(a1)), Scale(L2, Sin(a1 + a2)))

(* calc_fk is declared bool and ends without a return statement: what the
   caller reads as its result is whatever the build leaves there, either
   value. *)
calc_fk(a1, a2, r) == [x |-> fk_x(a1, a2), y |-> fk_y(a1, a2), ret |-> r]

max_mag == FAdd(L1, L2)

min_mag == MM(10)

\* -0.001
y_ceiling == Fl(-1)

\* -0.9 * (L1 + L2)
x_floor == FMulDiv(Fl(-9), max_mag, Fl(10))

(* constrain_ik_point takes two references.  m is the memory they point
   into and rx, ry name the cells, so that a call with rx = ry behaves as
   the code does on one cell. *)

\* lines 31-35
NanFallback(m, rx, ry) == [[m EXCEPT ![rx] = MM(0)] EXCEPT ![ry] = MM(-100)]

\* x *= bound / mag on the cell r
ScaleCell(m, r, bound, mag) == [m EXCEPT ![r] = FMulDiv(m[r], bound, mag)]

\* lines 40-42 and 44-46
Rescale(s, rx, ry, bound, mag) ==
  [mem |-> ScaleCell(ScaleCell(s.mem, rx, bound, mag), ry, bound, mag),
   modified |-> TRUE]

\* lines 39-47, mag computed
ClampTo(s, rx, ry, mag) ==
  IF FLess(max_mag, mag) THEN Rescale(s, rx, ry, max_mag, mag)
  ELSE IF FLess(mag, min_mag) THEN Rescale(s, rx, ry, min_mag, mag)
  ELSE s

\* sqrt(x * x + y * y)
Magnitude(px, py) == FSqrt(BigAdd(FMul(px, px), FMul(py, py)))

\* lines 38-47
ClampMagnitude(s, rx, ry) == ClampTo(s, rx, ry, Magnitude(s.mem[rx], s.mem[ry]))

\* x = (x + L1) * L1 / mag - L1 on the cell r
ProjectX(m, r, mag) == [m EXCEPT ![r] = FSub(FMulDiv(FAdd(m[r], L1), L1, mag), L1)]

\* y = (y) * L1 / mag on the cell r
ProjectY(m, r, mag) == [m EXCEPT ![r] = FMulDiv(m[r], L1, mag)]

\* lines 50-54, mag computed
ProjectOut(s, rx, ry, mag) ==
  IF FLess(mag, L1)
  THEN [mem |-> ProjectY(ProjectX(s.mem, rx, mag), ry, mag), modified |-> TRUE]
  ELSE s

\* lines 49-54
ClampDisc(s, rx, ry) ==
  ProjectOut(s, rx, ry, FSqrt(dist_sq(s.mem[rx], s.mem[ry], FNeg(L1), MM(0))))

\* lines 55-58
ClampY(s, ry) ==
  IF FLess(y_ceiling, s.mem[ry])
  THEN [mem |-> [s.mem EXCEPT ![ry] = y_ceiling], modified |-> TRUE]
  ELSE s

\* lines 59-62
ClampX(s, rx) ==
  IF FLess(s.mem[rx], x_floor)
  THEN [mem |-> [s.mem EXCEPT ![rx] = x_floor], modified |-> TRUE]
  ELSE s

\* the NaN test of line 31 on x alone
IsNanPointOfX(m, rx, ry) == isnan(m[rx])

IsNanPoint(m, rx, ry) == isnan(m[rx]) \/ isnan(m[ry])

\* line 63
Outcome(s) == [mem |-> s.mem, ret |-> s.modified]

constrain_ik_point(m, rx, ry) ==
  IF IsNanPoint(m, rx, ry) THEN [mem |-> NanFallback(m, rx, ry), ret |-> TRUE]
  ELSE Outcome(ClampX(ClampY(ClampDisc(ClampMagnitude(
         [mem |-> m, modified |-> FALSE], rx, ry), rx, ry), ry), rx))

\* r.mem as a point
PointOf(r) == [x |-> r.mem.x, y |-> r.mem.y, ret |-> r.ret]

\* the call on two distinct variables
constrain_point(px, py) ==
  PointOf(constrain_ik_point([x |-> px, y |-> py], "x", "y"))

---------------------------------------------------------------------------
(* Profile store *)

NUM_PROFILES == 4

PROFILE_EEPROM_START == 0

PROFILE_EEPROM_LEN == 4

sizeof_float == 4

\* struct Profile: ten floats in this order
FieldNames ==
  <<"entry_x", "entry_y", "bottom_x", "bottom_y", "middle_x", "middle_y",
    "front_x", "front_y", "end_x", "end_y">>

Fields == {FieldNames[i] : i \in 1..Len(FieldNames)}

sizeof_Profile == Len(FieldNames) * sizeof_float

\* a Profile from its ten coordinates, in thousandths of a millimetre
Prof(c) == [f \in Fields |-> Fl(c[CHOOSE i \in 1..Len(FieldNames) : FieldNames[i] = f])]

plate_profile ==
  Prof(<<-80000, -155000, -76000, -175000, 0, -177500, 76000, -180000, 80000, -155000>>)

bowl_profile ==
  Prof(<<-75000, -82500, -70000, -175000, 0, -175000, 70000, -175000, 60000, -90000>>)

\* Profile profiles[4]: a global, zero-initialised
ZeroProfile == Prof(<<0, 0, 0, 0, 0, 0, 0, 0, 0, 0>>)

(* The store is an array of bytes.  A byte is byte k of the object
   representation of a float f: EEPROM.put copies an object's bytes out and
   EEPROM.get copies them back, so four bytes make a float again when they
   are bytes 0..3 of one float.  Any other four bytes make a value that is
   not tracked, read here as NaN. *)
Byte(f, k) == [f |-> f, k |-> k]

EepromSize == PROFILE_EEPROM_START + PROFILE_EEPROM_LEN * sizeof_Profile

\* an erased store: every byte 0xFF, which reads as NaN floats
ErasedEEPROM == [a \in 0..(EepromSize - 1) |-> Byte(NaN, a % sizeof_float)]

EEPROM_put(E, addr, prof) ==
  [a \in DOMAIN E |->
     IF addr <= a /\ a < addr + sizeof_Profile
     THEN Byte(prof[FieldNames[((a - addr) \div sizeof_float) + 1]],
               (a - addr) % sizeof_float)
     ELSE E[a]]

ReadFloat(E, a) ==
  IF \A k \in 0..(sizeof_float - 1) :
       a + k \in DOMAIN E /\ E[a + k].k = k /\ E[a + k].f = E[a].f
  THEN E[a].f
  ELSE NaN

EEPROM_get(E, addr) ==
  [f \in Fields |->
     ReadFloat(E, addr + sizeof_float *
                 ((CHOOSE i \in 1..Len(FieldNames) : FieldNames[i] = f) - 1))]

\* an int argument converted to the uint8_t parameter
ToUint8(i) == i % 256

\* slots one float short of a Profile apart
SlotAddrShort(i) == PROFILE_EEPROM_START + ((sizeof_Profile - sizeof_float) * i)

\* the address of slot i
SlotAddr(i) == PROFILE_EEPROM_START + (sizeof_Profile * i)

\* the range test of line 35 with > for >=
save_profile_gt(E, prof, i) ==
  IF i > PROFILE_EEPROM_LEN THEN [ret |-> FALSE, E |-> E]
  ELSE [ret |-> TRUE, E |-> EEPROM_put(E, SlotAddr(i), prof)]

save_profile(E, prof, i) ==
  IF i >= PROFILE_EEPROM_LEN THEN [ret |-> FALSE, E |-> E]
  ELSE [ret |-> TRUE, E |-> EEPROM_put(E, SlotAddr(i), prof)]

\* constrain_ik_point on two fields of a profile, the result discarded
Constrained(prof, rx, ry) == constrain_ik_point(prof, rx, ry).mem

\* the five calls of lines 43-47, on the fields of the caller's profile
ClampLoaded(prof) ==
  Constrained(Constrained(Constrained(Constrained(Constrained(prof,
    "entry_x", "entry_y"), "bottom_x", "bottom_y"), "middle_x", "middle_y"),
    "front_x", "front_y"), "end_y", "end_y")

\* prof is the caller's profile before the call
load_profile(E, i, prof) ==
  IF i >= PROFILE_EEPROM_LEN THEN [ret |-> FALSE, p |-> prof]
  ELSE [ret |-> TRUE, p |-> ClampLoaded(EEPROM_get(E, SlotAddr(i)))]

\* line 29
DefaultFor(i) == IF i < NUM_PROFILES \div 2 THEN bowl_profile ELSE plate_profile

\* line 30: profiles[i] is saved to slot i
SaveSlot(bank, E, i) ==
  [profiles |-> bank, E |-> save_profile(E, bank[i], ToUint8(i)).E]

\* lines 29-30: st is [profiles, E]
ResetStep(st, i) ==
  SaveSlot([st.profiles EXCEPT ![i] = DefaultFor(i)], st.E, i)

\* the loop of reset_profiles: r[i] is the state after i rounds
reset_profiles(bank, E) ==
  LET r[i \in 0..NUM_PROFILES] ==
        IF i = 0 THEN [profiles |-> bank, E |-> E] ELSE ResetStep(r[i - 1], i - 1)
  IN r[NUM_PROFILES]

\* -(L1 + 50)
DeepReach == FNeg(FAdd(L1, MM(50)))

\* the test of line 71 with <= for <
get_profile_step_le(prof, step, px, py) ==
  CASE step = 0 -> [ret |-> TRUE, x |-> prof.entry_x, y |-> prof.entry_y]
    [] step = 1 -> [ret |-> TRUE, x |-> prof.bottom_x, y |-> prof.bottom_y]
    [] step = 2 -> [ret |-> TRUE, x |-> prof.middle_x, y |-> prof.middle_y]
    [] step = 3 -> [ret |-> TRUE, x |-> prof.front_x, y |-> prof.front_y]
    [] step = 4 -> [ret |-> TRUE, x |-> prof.end_x,
                    y |-> IF ~FLess(DeepReach, prof.end_y) /\ ~isnan(prof.end_y)
                          THEN FAdd(prof.end_y, MM(15))
                          ELSE FAdd(prof.end_y, MM(25))]
    [] OTHER -> [ret |-> FALSE, x |-> px, y |-> py]

\* px, py are the caller's x_addr, y_addr before the call
get_profile_step(prof, step, px, py) ==
  CASE step = 0 -> [ret |-> TRUE, x |-> prof.entry_x, y |-> prof.entry_y]
    [] step = 1 -> [ret |-> TRUE, x |-> prof.bottom_x, y |-> prof.bottom_y]
    [] step = 2 -> [ret |-> TRUE, x |-> prof.middle_x, y |-> prof.middle_y]
    [] step = 3 -> [ret |-> TRUE, x |-> prof.front_x, y |-> prof.front_y]
    [] step = 4 -> [ret |-> TRUE, x |-> prof.end_x,
                    y |-> IF FLess(prof.end_y, DeepReach)
                          THEN FAdd(prof.end_y, MM(15))
                          ELSE FAdd(prof.end_y, MM(25))]
    [] OTHER -> [ret |-> FALSE, x |-> px, y |-> py]

---------------------------------------------------------------------------
(* The callers: what they pass in *)

\* the largest step index a caller passes, and the smallest negated
MaxStep == 5

\* the largest of the small slot indices a caller passes
MaxIdx == 4

StepArgs == (-MaxStep)..MaxStep

\* int arguments for the uint8_t idx: small ones, and ones around 2^8
IdxArgs == ((-1)..MaxIdx) \cup {255, 256}

HOME_X == Fl(-42642)

HOME_Y == Fl(-81915)

\* the origin, a point beyond full reach, a NaN, a point in the disc around
\* (-L1, 0) with y >= 0, and an end point left of the x floor whose y is
\* exactly -(L1 + 50)
F_wild ==
  [Prof(<<0, 0, 300000, 0, 0, 5000, -104500, 50000, -300000, -154500>>)
     EXCEPT !.middle_x = NaN]

\* the profiles a caller saves
CallerProfiles == {F_wild}

\* what the caller's profile variable holds before a load
HeldProfile == plate_profile

CoordX == {NaN} \cup {Fl(n) : n \in {-300000, -104500, 0, 5000, 300000}}

CoordY == {NaN} \cup {Fl(n) : n \in {-10000, 0, 5000, 50000}}

\* points well inside the workspace, and far beyond full reach
FarPoints ==
  {[x |-> Fl(0), y |-> Fl(-175000)], [x |-> Fl(0), y |-> Fl(-400000)],
   [x |-> Fl(-300000), y |-> Fl(-400000)], [x |-> Fl(300000), y |-> Fl(-400000)]}

\* the points a caller passes
Points == {[x |-> a, y |-> b] : a \in CoordX, b \in CoordY} \cup FarPoints

\* joint angles, in degrees
Degrees == {-180, -90, 0, 30}

---------------------------------------------------------------------------
(* Behaviour.  A variable that a call does not have holds its idle value. *)

IdlePoint == x0' = HOME_X /\ y0' = HOME_Y /\ x' = HOME_X /\ y' = HOME_Y

IdleAngles == q1' = 0 /\ q2' = 0 /\ q1_ptr' = "prev" /\ q2_ptr' = "prev"

IdleProfile == pin' = ZeroProfile /\ p' = ZeroProfile

NoWrite == [set |-> FALSE, prof |-> ZeroProfile]

Wrote(F) == [set |-> TRUE, prof |-> F]

Slots == 0..(PROFILE_EEPROM_LEN - 1)

Init ==
  /\ op = "init" /\ idx = 0 /\ ret = FALSE
  /\ x0 = HOME_X /\ y0 = HOME_Y /\ x = HOME_X /\ y = HOME_Y
  /\ q1 = 0 /\ q2 = 0 /\ q1_ptr = "prev" /\ q2_ptr = "prev"
  /\ pin = ZeroProfile /\ p = ZeroProfile
  /\ EEPROM = ErasedEEPROM
  /\ profiles = [i \in 0..(NUM_PROFILES - 1) |-> ZeroProfile]
  /\ written = [i \in Slots |-> NoWrite]

\* the kinematics functions are called on the caller's point and angles
InitKin ==
  /\ op = "init" /\ idx = 0 /\ ret = FALSE
  /\ \E pt \in Points : x0 = pt.x /\ y0 = pt.y /\ x = pt.x /\ y = pt.y
  /\ q1 \in Degrees /\ q2 \in Degrees /\ q1_ptr = "prev" /\ q2_ptr = "prev"
  /\ pin = ZeroProfile /\ p = ZeroProfile
  /\ EEPROM = ErasedEEPROM
  /\ profiles = [i \in 0..(NUM_PROFILES - 1) |-> ZeroProfile]
  /\ written = [i \in Slots |-> NoWrite]

\* constrain_ik_point(x, y) on the caller's point
ConstrainIkPoint ==
  LET r == constrain_point(x, y)
  IN /\ op' = "constrain_ik_point" /\ idx' = 0
     /\ x0' = x /\ y0' = y
     /\ x' = r.x /\ y' = r.y /\ ret' = r.ret
     /\ q1_ptr' = "prev" /\ q2_ptr' = "prev"
     /\ UNCHANGED <<q1, q2, pin, p, EEPROM, profiles, written>>

\* calc_ik(x, y, q1_ptr, q2_ptr) on the caller's point
CalcIk ==
  LET r == calc_ik(x, y, "prev", "prev")
  IN /\ op' = "calc_ik" /\ idx' = 0
     /\ x0' = x /\ y0' = y
     /\ q1_ptr' = r.t1 /\ q2_ptr' = r.t2 /\ ret' = r.ret
     /\ UNCHANGED <<x, y, q1, q2, pin, p, EEPROM, profiles, written>>

\* calc_fk(q1, q2, x, y) on the caller's angles
CalcFk ==
  \E result \in BOOLEAN :
    LET r == calc_fk(q1, q2, result)
    IN /\ op' = "calc_fk" /\ idx' = 0
       /\ x0' = x /\ y0' = y
       /\ x' = r.x /\ y' = r.y /\ ret' = r.ret
       /\ q1_ptr' = "prev" /\ q2_ptr' = "prev"
       /\ UNCHANGED <<q1, q2, pin, p, EEPROM, profiles, written>>

\* save_profile(F, i)
SaveProfile ==
  \E F \in CallerProfiles, i \in IdxArgs :
    LET r == save_profile(EEPROM, F, ToUint8(i))
    IN /\ op' = "save_profile" /\ idx' = i /\ ret' = r.ret
       /\ pin' = F /\ p' = F
       /\ EEPROM' = r.E
       /\ written' = IF r.ret THEN [written EXCEPT ![ToUint8(i)] = Wrote(F)]
                              ELSE written
       /\ IdlePoint /\ IdleAngles
       /\ UNCHANGED profiles

\* load_profile(i, p), the caller's p holding HeldProfile
LoadProfile ==
  \E i \in IdxArgs :
    LET r == load_profile(EEPROM, ToUint8(i), HeldProfile)
    IN /\ op' = "load_profile" /\ idx' = i /\ ret' = r.ret
       /\ pin' = HeldProfile /\ p' = r.p
       /\ IdlePoint /\ IdleAngles
       /\ UNCHANGED <<EEPROM, profiles, written>>

\* reset_profiles()
ResetProfiles ==
  LET r == reset_profiles(profiles, EEPROM)
  IN /\ op' = "reset_profiles" /\ idx' = 0 /\ ret' = FALSE
     /\ profiles' = r.profiles
     /\ EEPROM' = r.E
     /\ written' = [i \in Slots |->
                      Wrote(IF i < 2 THEN bowl_profile ELSE plate_profile)]
     /\ IdlePoint /\ IdleAngles /\ IdleProfile

\* get_profile_step(p, step, x, y) on the caller's profile
GetProfileStep ==
  \E step \in StepArgs :
    LET r == get_profile_step(p, step, HOME_X, HOME_Y)
    IN /\ op' = "get_profile_step" /\ idx' = step /\ ret' = r.ret
       /\ pin' = p /\ p' = p
       /\ x0' = HOME_X /\ y0' = HOME_Y /\ x' = r.x /\ y' = r.y
       /\ IdleAngles
       /\ UNCHANGED <<EEPROM, profiles, written>>

\* the profile store and its callers
Next == SaveProfile \/ LoadProfile \/ ResetProfiles \/ GetProfileStep

Spec == Init /\ [][Next]_vars

\* the kinematics engine and its callers
NextKin == ConstrainIkPoint \/ CalcIk \/ CalcFk

SpecKin == InitKin /\ [][NextKin]_vars

---------------------------------------------------------------------------
(* Properties *)

Waypoints == {"entry", "bottom", "middle", "front", "end"}

XField(w) == w \o "_x"

YField(w) == w \o "_y"

WaypointOf(f) == CHOOSE w \in Waypoints : f \in {XField(w), YField(w)}

\* the (x, y) pair of the waypoint of field f, clamped as a point
ClampedAt(F, w) == constrain_point(F[XField(w)], F[YField(w)])

\* F with constrain_ik_point applied to each of its five waypoints
EachClamped(F) ==
  [f \in Fields |-> IF f = XField(WaypointOf(f)) THEN ClampedAt(F, WaypointOf(f)).x
                    ELSE ClampedAt(F, WaypointOf(f)).y]

\* C1: a load_profile(i) that follows save_profile(F, i), i in 0..3, succeeds
\* and returns F with constrain_ik_point applied to each waypoint, the end
\* waypoint included.
C1_RoundTrip ==
  [][(op = "save_profile" /\ idx \in Slots /\ op' = "load_profile" /\ idx' = idx)
       => (ret' /\ p' = EachClamped(pin))]_vars

\* C2: constrain_ik_point applied to a result of constrain_ik_point leaves
\* the point unchanged and reports was_modified == false.
C2_Idempotent ==
  [][(op = "constrain_ik_point" /\ op' = "constrain_ik_point")
       => (x' = x /\ y' = y /\ ret' = FALSE)]_vars

\* C3: after reset_profiles, load_profile(0) and load_profile(1) return the
\* bowl default with each waypoint clamped, load_profile(2) and
\* load_profile(3) the plate default with each waypoint clamped.
C3_ResetThenLoad ==
  [][(op = "reset_profiles" /\ op' = "load_profile" /\ idx' \in Slots)
       => (ret' /\ p' = EachClamped(IF idx' \in {0, 1} THEN bowl_profile
                                                      ELSE plate_profile))]_vars

SqMag(px, py) == BigAdd(FMul(px, px), FMul(py, py))

\* every workspace bound at once
WorkspaceSafe(px, py) ==
  /\ ~isnan(px) /\ ~isnan(py)
  /\ ~BigLess(SqMag(px, py), FMul(min_mag, min_mag))
  /\ ~BigLess(FMul(max_mag, max_mag), SqMag(px, py))
  /\ ~BigLess(dist_sq(px, py, FNeg(L1), MM(0)), FMul(L1, L1))
  /\ py.v <= -1
  /\ 10 * px.v >= -9 * max_mag.v

\* C4: every waypoint of a profile returned by load_profile(i), i in 0..3,
\* satisfies all workspace bounds: no NaN, 10 <= |(x, y)| <= L1 + L2, at least
\* L1 away from (-L1, 0), y <= -0.001 and x >= -0.9 * (L1 + L2).
C4_LoadedSafe ==
  (op = "load_profile" /\ idx \in Slots)
    => \A w \in Waypoints : WorkspaceSafe(p[XField(w)], p[YField(w)])

InvalidSlotFails ==
  /\ ~ret'
  /\ EEPROM' = EEPROM
  /\ (op' = "load_profile" => p' = pin')

\* C5 as stated: for every index the caller passes outside 0..3 (4, 255, 256,
\* a negative value) save_profile and load_profile return false, no stored
\* byte changes and load_profile leaves the caller's profile unmodified; for
\* every index in 0..3 both return true.
C5_InvalidSlot_Original ==
  [][(op' \in {"save_profile", "load_profile"})
       => IF idx' \in Slots THEN ret' ELSE InvalidSlotFails]_vars

\* C5, amended: the same of the index as the uint8_t parameter receives it,
\* the caller's value modulo 256: 4..255 fail without effect, 0..3 succeed.
C5_InvalidSlot ==
  [][(op' \in {"save_profile", "load_profile"})
       => IF ToUint8(idx') \in Slots THEN ret' ELSE InvalidSlotFails]_vars

\* a save with the index 256 has succeeded, and a load with 255 has failed
C5_Witness ==
  \/ op = "save_profile" /\ idx = 256 /\ ret /\ written[0] = Wrote(pin)
  \/ op = "load_profile" /\ idx = 255 /\ ~ret /\ p = pin

\* end.y + 15 below -(L1 + 50), end.y + 25 otherwise
Cleared(ey) ==
  IF isnan(ey) THEN NaN
  ELSE IF ey.v < -(L1.v + 50000) THEN Fl(ey.v + 15000) ELSE Fl(ey.v + 25000)

\* C6: get_profile_step returns the entry, bottom, middle, front waypoint for
\* step 0, 1, 2, 3; for step 4 x = end.x and y = end.y + 15 when
\* end.y < -(L1 + 50), else end.y + 25; for any other step it fails and
\* leaves x and y as they were; the profile is never modified.
C6_ProfileStep ==
  op = "get_profile_step" =>
    /\ p = pin
    /\ idx = 0 => ret /\ x = pin.entry_x /\ y = pin.entry_y
    /\ idx = 1 => ret /\ x = pin.bottom_x /\ y = pin.bottom_y
    /\ idx = 2 => ret /\ x = pin.middle_x /\ y = pin.middle_y
    /\ idx = 3 => ret /\ x = pin.front_x /\ y = pin.front_y
    /\ idx = 4 => ret /\ x = pin.end_x /\ y = Cleared(pin.end_y)
    /\ idx \notin 0..4 => ~ret /\ x = x0 /\ y = y0

\* step 4 of a profile whose end.y is exactly -(L1 + 50) has returned +25
C6_Witness ==
  /\ op = "get_profile_step" /\ idx = 4 /\ ret
  /\ pin.end_y = Fl(-154500) /\ y = Fl(-129500)

\* C7: for an input with x or y NaN, constrain_ik_point returns exactly
\* (0, -100) with was_modified == true.
C7_NanRecovery ==
  (op = "constrain_ik_point" /\ (isnan(x0) \/ isnan(y0)))
    => (x = MM(0) /\ y = MM(-100) /\ ret = TRUE)

\* the call has acted on a point whose y alone is NaN
C7_Witness ==
  /\ op = "constrain_ik_point" /\ ~isnan(x0) /\ isnan(y0)
  /\ x = MM(0) /\ y = MM(-100) /\ ret

\* C8: calc_fk writes x = L1 cos q1 + L2 cos(q1 + q2) and
\* y = L1 sin q1 + L2 sin(q1 + q2), and its result is true on every call.
C8_FkSucceeds ==
  op = "calc_fk" => (ret = TRUE /\ x = fk_x(q1, q2) /\ y = fk_y(q1, q2))

\* C9: for Q = constrain_ik_point(P), D is a number with -1 <= D <= 1, and
\* calc_ik(Q) returns success with joint angles that are not NaN.
C9_ClampedInDomain ==
  op = "constrain_ik_point" =>
    /\ ~isnan(DValue(x, y, L1, L2))
    /\ ~NegativeRadicand(DValue(x, y, L1, L2))
    /\ calc_ik(x, y, "prev", "prev") = [ret |-> TRUE, t1 |-> "num", t2 |-> "num"]

\* the bytes [i * sizeof(Profile), (i + 1) * sizeof(Profile))
SlotBytes(i) == (i * sizeof_Profile)..((i + 1) * sizeof_Profile - 1)

\* slot i holds the ten floats of F, in order, byte for byte
HoldsVerbatim(E, i, F) ==
  \A a \in SlotBytes(i) :
    E[a] = Byte(F[FieldNames[((a - i * sizeof_Profile) \div sizeof_float) + 1]],
                (a - i * sizeof_Profile) % sizeof_float)

LastWriteWins ==
  \A i \in Slots : written[i].set => HoldsVerbatim(EEPROM, i, written[i].prof)

StoreFrame ==
  /\ (op' = "save_profile" /\ ret') =>
        \A a \in (DOMAIN EEPROM) \ SlotBytes(ToUint8(idx')) : EEPROM'[a] = EEPROM[a]
  /\ op' \in {"load_profile", "get_profile_step"} => EEPROM' = EEPROM

\* C10: slot i always holds verbatim the profile most recently written to it
\* by save_profile or reset_profiles; a successful save_profile(F, i) changes
\* no byte outside slot i; load_profile and get_profile_step change no byte.
C10_SlotIsolation == [](LastWriteWins) /\ [][StoreFrame]_vars

\* slot 0 was reset and then saved over, slot 1 still holds its default, and
\* a load of slot 0 has returned a profile that differs from what is stored
C10_Witness ==
  /\ op = "load_profile" /\ idx = 0 /\ ret
  /\ written[0] = Wrote(F_wild) /\ written[1] = Wrote(bowl_profile)
  /\ HoldsVerbatim(EEPROM, 0, F_wild) /\ HoldsVerbatim(EEPROM, 1, bowl_profile)
  /\ p /= F_wild

====
